---------------------------- MODULE Spec2Model ----------------------------
(***************************************************************************)
(* A model of the Symptom Checker backend (healthcare-backend/app.py) and  *)
(* of its seeding script (healthcare-backend/seed_redis.py).               *)
(*                                                                         *)
(* Text is a sequence of tokens: the token " " is a whitespace character,  *)
(* any other token is an indivisible run of non-whitespace characters.     *)
(* An optional value (Python's None or a value) is a sequence of length 0  *)
(* or 1.  Durations are integers, in milliseconds.                         *)
(***************************************************************************)
EXTENDS Integers, Sequences, FiniteSets, TLC

VARIABLES
    RETURN_FALLBACK_ON_LLM_ERROR, \* module constant, read at import
    GEMINI_MODEL,                 \* module constant, read at import
    GEMINI_API_BASE_URL,          \* module constant, read at import
    store,       \* the key-value store: key -> raw stored text
    pc,          \* position of the request handler
    req,         \* the body of the request being handled (as parsed by get_json)
    lookup,      \* what the cache lookup of this request met
    cfg,         \* the credentials the handler read: hf_key, hf_model, gemini_key
    hf,          \* locals of _post_hf_with_resilience, while it runs
    gem,         \* locals of _post_gemini_try_targets and the loops it runs, while it runs
    last,        \* the provider's answer to the most recent outbound call
    nCalls,      \* outbound provider calls made for this request
    nLookups,    \* cache lookups made for this request
    targets,     \* the (base URL, model) targets called for this request, in order,
                 \* consecutive calls to one target listed once
    uniform,     \* the status of every provider answer of this request so far, when
                 \* they all had the same one
    resp,        \* the HTTP response of this request, once made
    home,        \* the HTTP response of the most recent GET /, if any
    fn,          \* the function applied on its own, "none" before it is
    arg,         \* its argument
    out,         \* its result
    environ,     \* os.environ: GEMINI_API_KEY in the environment of the process
    dotenv,      \* the .env file: its GEMINI_API_KEY line
    workers      \* the threads handling POST /analyze concurrently

\* the state of the service
service == << RETURN_FALLBACK_ON_LLM_ERROR, GEMINI_MODEL, GEMINI_API_BASE_URL,
              store, pc, req, lookup, cfg, hf, gem, last,
              nCalls, nLookups, targets, uniform, resp, home >>

\* the state of a function applied on its own
aside == << fn, arg, out >>

\* the state the concurrent handlers share, and their own
conc == << environ, dotenv, workers >>

vars == << service, aside, conc >>

---------------------------------------------------------------------------
(* Optional values and small helpers *)

None == << >>

Some(x) == << x >>

IsNone(o) == o = << >>

Min(a, b) == IF a <= b THEN a ELSE b

Max(a, b) == IF a >= b THEN a ELSE b

---------------------------------------------------------------------------
(* Text: str.strip, str.lower, str.split, str.join *)

IsSpace(c) == c = " "

RECURSIVE LStrip(_)
LStrip(s) == IF s # << >> /\ IsSpace(Head(s)) THEN LStrip(Tail(s)) ELSE s

RECURSIVE RStrip(_)
RStrip(s) ==
    IF s # << >> /\ IsSpace(s[Len(s)]) THEN RStrip(SubSeq(s, 1, Len(s) - 1)) ELSE s

Strip(s) == RStrip(LStrip(s))

LowerTok(c) ==
    CASE c = "A" -> "a"
      [] c = "B" -> "b"
      [] c = "ON" -> "on"
      [] c = "TRUE" -> "true"
      [] c = "Loading" -> "loading"
      [] OTHER -> c

Lower(s) == [i \in 1..Len(s) |-> LowerTok(s[i])]

\* str.split(): the maximal runs of non-whitespace tokens, in order
RECURSIVE SplitWs(_)
SplitWs(s) ==
    LET t == LStrip(s)
        WordEnd[i \in 0..Len(t)] ==
            IF i = Len(t) \/ IsSpace(t[i + 1]) THEN i ELSE WordEnd[i + 1]
    IN  IF t = << >> THEN << >>
        ELSE << SubSeq(t, 1, WordEnd[1]) >> \o SplitWs(SubSeq(t, WordEnd[1] + 1, Len(t)))

\* " ".join(words)
RECURSIVE JoinSp(_)
JoinSp(words) ==
    IF words = << >> THEN << >>
    ELSE IF Len(words) = 1 THEN words[1]
    ELSE words[1] \o << " " >> \o JoinSp(Tail(words))

\* _normalize_symptoms without the lower-casing
NormalizeKeepingCase(text) == JoinSp(SplitWs(Strip(text)))

\* app.py 244-245
_normalize_symptoms(text) == JoinSp(SplitWs(Lower(Strip(text))))

\* seed_redis.py 29-30: the script's own _normalize_symptoms
SeedNormalize(text) == JoinSp(SplitWs(Lower(Strip(text))))

\* hashlib.sha256(...).hexdigest(): a digest that determines the text it was made of
Sha256Hex(text) == << "sha256" >> \o text

_redis_seed_key(prefix, symptoms) ==
    [prefix |-> prefix, digest |-> Sha256Hex(SeedNormalize(symptoms))]

_seed_key(prefix, symptoms) ==
    [prefix |-> prefix, digest |-> Sha256Hex(_normalize_symptoms(symptoms))]

---------------------------------------------------------------------------
(* JSON values: a dict has fields f, a list or a string has contents v *)

EmptyF == [k \in {} |-> << >>]

Dict(fields) == [t |-> "dict", f |-> fields, v |-> << >>]

ListV(items) == [t |-> "list", f |-> EmptyF, v |-> items]

Str(text) == [t |-> "str", f |-> EmptyF, v |-> text]

Num(tok) == [t |-> "num", f |-> EmptyF, v |-> << tok >>]

Null == [t |-> "null", f |-> EmptyF, v |-> << >>]

\* dict.get(key): the field, or None (JSON null) when it is absent
Get(d, key) == IF d.t = "dict" /\ key \in DOMAIN d.f THEN d.f[key] ELSE Null

\* HasResultShape with the checks of recommendations and disclaimer left out
HasResultShapeConditionsOnly(d) == Get(d, "conditions").t = "list"

\* the three isinstance checks of app.py 275-280 and seed_redis.py 71
HasResultShape(d) ==
    /\ Get(d, "conditions").t = "list"
    /\ Get(d, "recommendations").t = "str"
    /\ Get(d, "disclaimer").t = "str"

\* the dict literal of app.py 281-285
ThreeFields(d) ==
    Dict([conditions |-> d.f["conditions"],
          recommendations |-> d.f["recommendations"],
          disclaimer |-> d.f["disclaimer"]])

\* raw text: json.dumps of a value, some text that is not JSON, or the empty text
json_dumps(value) == [kind |-> "json", val |-> value]

NotJsonText == [kind |-> "text", val |-> Null]

EmptyText == [kind |-> "empty", val |-> Null]

\* json.loads: the value, or None when it raises
json_loads(raw) == IF raw.kind = "json" THEN Some(raw.val) ELSE None

---------------------------------------------------------------------------
(* Environment values *)

\* _env_str on os.getenv(name): value and default are optional texts
_env_str(value, default) ==
    LET v == IF IsNone(value) THEN default ELSE value
    IN  IF IsNone(v) THEN default ELSE Some(Strip(v[1]))

\* Python truthiness of an optional text
Truthy(o) == ~IsNone(o) /\ o[1] # << >>

\* `a or b` on optional texts
OrElse(a, b) == IF Truthy(a) THEN a[1] ELSE b

TrueWords == { << "1" >>, << "true" >>, << "yes" >>, << "y" >>, << "on" >> }

_env_bool(value, default) ==
    IF IsNone(value) THEN default ELSE Lower(Strip(value[1])) \in TrueWords

\* float(text): the number a text denotes, or None when float() raises
IntToks ==
    [k \in {"-2", "0", "1", "2", "3", "9", "1000", "2000"} |->
        CASE k = "-2" -> 0 - 2
          [] k = "0" -> 0
          [] k = "1" -> 1
          [] k = "2" -> 2
          [] k = "3" -> 3
          [] k = "9" -> 9
          [] k = "1000" -> 1000
          [] k = "2000" -> 2000]

ParseNumber(text) ==
    IF Len(Strip(text)) = 1 /\ Strip(text)[1] \in DOMAIN IntToks
    THEN Some(IntToks[Strip(text)[1]])
    ELSE None

_env_int(value, default) ==
    LET s == _env_str(value, None)
    IN  IF IsNone(s) THEN default
        ELSE IF IsNone(ParseNumber(s[1])) THEN default
        ELSE ParseNumber(s[1])[1]

\* float(text) of a number of seconds, in ms; "nan" parses to a NaN
SecondsToks ==
    [k \in {"0.05", "0.2", "0.7", "1", "2", "20", "100"} |->
        CASE k = "0.05" -> 50
          [] k = "0.2" -> 200
          [] k = "0.7" -> 700
          [] k = "1" -> 1000
          [] k = "2" -> 2000
          [] k = "20" -> 20000
          [] k = "100" -> 100000]

\* 58-68, in ms: the default when the variable is unset, no number, or a NaN
_env_float(value, default) ==
    LET s == _env_str(value, None)
    IN  IF IsNone(s) THEN default
        ELSE IF Len(s[1]) = 1 /\ s[1][1] \in DOMAIN SecondsToks THEN SecondsToks[s[1][1]]
        ELSE default

---------------------------------------------------------------------------
(* The seeded-analysis cache: app.py 244-287 and seed_redis.py 39-84 *)

DefaultPrefix == << "symptom-checker:seed" >>

StoreGet(st, key) == IF key \in DOMAIN st THEN Some(st[key]) ELSE None

StoreSet(st, key, raw) ==
    [k \in DOMAIN st \cup {key} |-> IF k = key THEN raw ELSE st[k]]

\* _try_get_seeded_result returning the parsed entry as it is stored
SeededResultAsStored(symptoms, flag, prefix, pkg, up, st) ==
    LET pfx == OrElse(_env_str(prefix, Some(DefaultPrefix)), DefaultPrefix)
        raw == StoreGet(st, _redis_seed_key(pfx, symptoms))
        parsed == json_loads(raw[1])
    IN  IF ~_env_bool(flag, FALSE) \/ ~pkg \/ ~up THEN None
        ELSE IF IsNone(raw) \/ raw[1].kind = "empty" THEN None
        ELSE IF IsNone(parsed) THEN None
        ELSE IF parsed[1].t # "dict" THEN None
        ELSE IF ~HasResultShape(parsed[1]) THEN None
        ELSE Some(parsed[1])

\* What the lookup returns: None (a miss) or the AnalysisResult.
\* flag, prefix: os.getenv of REDIS_SEEDED_ANALYSIS_ENABLED and REDIS_SEED_PREFIX;
\* pkg: `import redis` succeeds; up: the store answers; st: the store's contents.
_try_get_seeded_result(symptoms, flag, prefix, pkg, up, st) ==
    LET pfx == OrElse(_env_str(prefix, Some(DefaultPrefix)), DefaultPrefix)
        raw == StoreGet(st, _redis_seed_key(pfx, symptoms))
        parsed == json_loads(raw[1])
    IN  IF ~_env_bool(flag, FALSE) THEN None
        ELSE IF ~pkg THEN None
        ELSE IF ~up THEN None
        ELSE IF IsNone(raw) \/ raw[1].kind = "empty" THEN None
        ELSE IF IsNone(parsed) THEN None
        ELSE IF parsed[1].t # "dict" THEN None
        ELSE IF ~HasResultShape(parsed[1]) THEN None
        ELSE Some(ThreeFields(parsed[1]))

\* seed_redis.py 64-82: the loop over the seed file's items
RECURSIVE SeedItems(_, _, _)
SeedItems(items, prefix, st) ==
    IF items = << >> THEN st
    ELSE LET item == Head(items)
             symptoms == Get(item, "symptoms")
             result == Get(item, "result")
             valid == /\ item.t = "dict"
                      /\ symptoms.t = "str"
                      /\ result.t = "dict"
                      /\ HasResultShape(result)
         IN  IF valid
             THEN SeedItems(Tail(items), prefix,
                            StoreSet(st, _seed_key(prefix, symptoms.v), json_dumps(result)))
             ELSE SeedItems(Tail(items), prefix, st)

\* seed_redis.py main(): the store after the script has run (it exits without
\* writing when the package is missing, the file is no JSON array, or the store
\* is unreachable at the first write)
seed_main(prefix, pkg, up, payload, st) ==
    LET pfx == OrElse(_env_str(prefix, Some(DefaultPrefix)), DefaultPrefix)
    IN  IF ~pkg THEN st
        ELSE IF payload.t # "list" THEN st
        ELSE IF ~up THEN st
        ELSE SeedItems(payload.v, pfx, st)

---------------------------------------------------------------------------
(* The model's output text and its parsing: app.py 212-234 and 674-689 *)

\* the token that stands for the code-fence marker, three backquotes
Fence == "FENCE"

NoSpaces(s) == SelectSeq(s, LAMBDA c : ~IsSpace(c))

\* the fields a token of object content stands for
FieldsOf(tok) ==
    CASE tok = "K3" -> [conditions |-> ListV(<< "A" >>),
                        recommendations |-> Str(<< "R" >>),
                        disclaimer |-> Str(<< "D" >>)]
      [] tok = "K1" -> [conditions |-> ListV(<< "A" >>)]
      [] OTHER -> EmptyF

\* json.loads of a text: the value, or None when it raises JSONDecodeError
json_loads_text(text) ==
    LET t == NoSpaces(text)
    IN  IF t = << "1" >> THEN Some(Num("1"))
        ELSE IF t = << "[", "]" >> THEN Some(ListV(<< >>))
        ELSE IF t = << "{", "}" >> THEN Some(Dict(EmptyF))
        ELSE IF Len(t) = 3 /\ t[1] = "{" /\ t[3] = "}" /\ t[2] \in {"K3", "K1"}
        THEN Some(Dict(FieldsOf(t[2])))
        ELSE None

\* positions of s at which the marker (a sequence of tokens) starts
Occurrences(s, marker) ==
    { i \in 1..Len(s) : /\ i + Len(marker) - 1 <= Len(s)
                        /\ SubSeq(s, i, i + Len(marker) - 1) = marker }

Contains(s, marker) == Occurrences(s, marker) # {}

SetMin(S) == CHOOSE x \in S : \A y \in S : x <= y

SetMax(S) == CHOOSE x \in S : \A y \in S : x >= y

\* AfterFirst splitting at the last occurrence of the marker
AfterLast(s, marker) ==
    SubSeq(s, SetMax(Occurrences(s, marker)) + Len(marker), Len(s))

\* s.split(marker, 1)[1]: what follows the first occurrence of the marker
AfterFirst(s, marker) ==
    SubSeq(s, SetMin(Occurrences(s, marker)) + Len(marker), Len(s))

\* s.split(marker, 1)[0]: what precedes the first occurrence, or all of s
BeforeFirst(s, marker) ==
    IF Contains(s, marker) THEN SubSeq(s, 1, SetMin(Occurrences(s, marker)) - 1) ELSE s

\* _parse_llm_json_output: the parsed value, or None when it raises
_parse_llm_json_output(text) ==
    LET cleaned == Strip(text)
        start == SetMin(Occurrences(cleaned, << "{" >>))
        end == SetMax(Occurrences(cleaned, << "}" >>))
        span == IF Contains(cleaned, << "{" >>) /\ Contains(cleaned, << "}" >>) /\ end > start
                THEN json_loads_text(SubSeq(cleaned, start, end))
                ELSE None
    IN  IF cleaned = << >> THEN None
        ELSE IF Contains(cleaned, << Fence, "json" >>)
        THEN json_loads_text(Strip(BeforeFirst(AfterFirst(cleaned, << Fence, "json" >>),
                                               << Fence >>)))
        ELSE IF Contains(cleaned, << Fence >>)
        THEN json_loads_text(Strip(BeforeFirst(AfterFirst(cleaned, << Fence >>), << Fence >>)))
        ELSE IF ~IsNone(span) THEN span
        ELSE json_loads_text(cleaned)

\* the parsing inlined in the Gemini branch of analyze_symptoms (674-683)
GeminiParse(text) ==
    LET cleaned == Strip(text)
    IN  IF Contains(cleaned, << Fence, "json" >>)
        THEN json_loads_text(Strip(BeforeFirst(AfterFirst(cleaned, << Fence, "json" >>),
                                               << Fence >>)))
        ELSE IF Contains(cleaned, << Fence >>)
        THEN json_loads_text(Strip(BeforeFirst(AfterFirst(cleaned, << Fence >>), << Fence >>)))
        ELSE json_loads_text(cleaned)

\* the canned result of 540-544 and 685-689
CannedResult ==
    Dict([conditions |-> ListV(<< "Consult a medical professional" >>),
          recommendations |->
              Str(<< "Based on your symptoms, consult a doctor for proper medical advice." >>),
          disclaimer |-> Str(<< "Educational purposes only - not medical advice" >>)])

---------------------------------------------------------------------------
(* Response bodies of POST /analyze *)

Response(status, body) == [status |-> status, body |-> body]

\* _fallback_result(reason): app.py 290-306
_fallback_result(reason) ==
    Dict([error |-> Str(<< "AI analysis temporarily unavailable" >>),
          code |-> Str(<< "LLM_FALLBACK" >>),
          reason |-> Str(reason),
          conditions |-> ListV(<< "AI analysis temporarily unavailable" >>),
          recommendations |->
              Str(<< "We couldn't run the AI analysis right now (service is busy). ",
                     "If symptoms are severe, worsening, [...] seek urgent medical care. ",
                     "Otherwise, consider rest, hydration, and monitoring your symptoms, ",
                     "and consult a licensed medical professional for proper evaluation." >>),
          disclaimer |->
              Str(<< "Educational use only. Not a diagnosis. (" >> \o reason
                  \o << ") ", "Always consult a qualified medical professional." >>)])

\* 471
InvalidBodyError == Dict([error |-> Str(<< "Invalid or missing JSON body" >>)])

\* 476
NoSymptomsError == Dict([error |-> Str(<< "No symptoms provided" >>)])

\* 516-529: the body made when _post_hf_with_resilience raises PermissionError
HfPermissionErrorBody(message) ==
    Dict([error |-> Str(<< "LLM provider authentication failed. ",
                           "Backend is not configured correctly." >>),
          code |-> Str(<< "LLM_AUTH_ERROR" >>),
          llm_status |-> Num("401"),
          llm_message |-> Str(message),
          conditions |-> ListV(<< >>),
          recommendations |->
              Str(<< "Verify HF_API_KEY and HF_MODEL_NAME are set and the token can access the model." >>),
          disclaimer |-> Str(<< "Please contact the administrator" >>)])

\* 551-563
HfRateLimitBody ==
    Dict([error |-> Str(<< "LLM provider rate limit. Please try again later." >>),
          code |-> Str(<< "LLM_RATE_LIMIT" >>),
          llm_status |-> Num("429"),
          conditions |-> ListV(<< >>),
          recommendations |-> Str(<< "Try again in a few minutes." >>),
          disclaimer |-> Str(<< "Please try again later" >>)])

\* 565-578
HfAuthErrorBody(status) ==
    Dict([error |-> Str(<< "LLM provider authentication failed. ",
                           "Backend is not configured correctly." >>),
          code |-> Str(<< "LLM_AUTH_ERROR" >>),
          llm_status |-> Num(ToString(status)),
          conditions |-> ListV(<< >>),
          recommendations |->
              Str(<< "Verify HF_API_KEY is correct and the token can access HF_MODEL_NAME." >>),
          disclaimer |-> Str(<< "Please contact the administrator" >>)])

\* 583-595
HfServiceErrorBody(status) ==
    Dict([error |-> Str(<< "LLM service error" >>),
          code |-> Str(<< "LLM_ERROR" >>),
          llm_status |-> Num(ToString(status)),
          conditions |-> ListV(<< >>),
          recommendations |-> Str(<< "AI service temporarily unavailable" >>),
          disclaimer |-> Str(<< "Please try again later" >>)])

\* 603-614
NotConfiguredBody ==
    Dict([error |-> Str(<< "LLM provider not configured" >>),
          code |-> Str(<< "LLM_NOT_CONFIGURED" >>),
          conditions |-> ListV(<< >>),
          recommendations |-> Str(<< "Service configuration error" >>),
          disclaimer |-> Str(<< "Please contact administrator" >>)])

\* 694-702: error.message and error.status of the provider's body, or None
ProviderMessage(ans) ==
    IF ans.kind = "error" THEN Str(<< "provider error message" >>) ELSE Null

ProviderStatus(ans) ==
    IF ans.kind = "error" THEN Str(<< "PROVIDER_STATUS" >>) ELSE Null

\* 708-722
GeminiRateLimitBody(ans) ==
    Dict([error |-> Str(<< "LLM provider rate limit or quota exceeded. Please try again later." >>),
          code |-> Str(<< "LLM_RATE_LIMIT" >>),
          llm_status |-> Num(ToString(ans.status)),
          llm_provider_status |-> ProviderStatus(ans),
          llm_message |-> ProviderMessage(ans),
          conditions |-> ListV(<< >>),
          recommendations |->
              Str(<< "Try again in a few minutes. If the issue persists, ",
                     "check your Google AI/Gemini billing and quota limits." >>),
          disclaimer |-> Str(<< "Please try again later" >>)])

\* 724-739
GeminiAuthErrorBody(ans) ==
    Dict([error |-> Str(<< "LLM provider authentication failed. ",
                           "Backend is not configured correctly." >>),
          code |-> Str(<< "LLM_AUTH_ERROR" >>),
          llm_status |-> Num(ToString(ans.status)),
          llm_provider_status |-> ProviderStatus(ans),
          llm_message |-> ProviderMessage(ans),
          conditions |-> ListV(<< >>),
          recommendations |->
              Str(<< "Verify GEMINI_API_KEY is set correctly in the backend environment." >>),
          disclaimer |-> Str(<< "Please contact the administrator" >>)])

\* 744-758
GeminiServiceErrorBody(ans) ==
    Dict([error |-> Str(<< "LLM service error" >>),
          code |-> Str(<< "LLM_ERROR" >>),
          llm_status |-> Num(ToString(ans.status)),
          llm_provider_status |-> ProviderStatus(ans),
          llm_message |-> ProviderMessage(ans),
          conditions |-> ListV(<< >>),
          recommendations |-> Str(<< "AI service temporarily unavailable" >>),
          disclaimer |-> Str(<< "Please try again later" >>)])

\* AnalysisFailed with a body that holds the error alone
AnalysisFailedErrorOnly(exc) ==
    Response(500, Dict([error |-> Str(<< "Analysis failed: " >> \o exc)]))

\* 760-771: the body made for any exception that reaches the handler's except
AnalysisFailed(exc) ==
    Response(500,
             Dict([error |-> Str(<< "Analysis failed: " >> \o exc),
                   conditions |-> ListV(<< >>),
                   recommendations |-> Str(<< "Please try again later" >>),
                   disclaimer |-> Str(<< "Service temporarily unavailable" >>)]))

---------------------------------------------------------------------------
(* The provider's answer to one outbound call.                             *)
(*   status      the HTTP status, or 0 when requests.post raised           *)
(*   retry_after the retry-after header, if any                            *)
(*   kind        what the body is: "notjson"; "error" (a JSON error body); *)
(*               for a 200: "content" (the model's text can be extracted), *)
(*               "notdict", "empty" (no choices / candidates), "notext"    *)
(*   msg         the error message of an "error" body, if it is a string   *)
(*   est         estimated_time of an "error" body, in ms, if a number     *)
(*   text        the model's output text of a "content" body               *)

Answer(status, retry_after, kind, msg, est, text) ==
    [status |-> status, retry_after |-> retry_after, kind |-> kind,
     msg |-> msg, est |-> est, text |-> text]

NoAnswer == Answer(0 - 1, None, "none", None, None, << >>)

Pow2(n) == 2 ^ n

---------------------------------------------------------------------------
(* _post_hf_with_resilience: app.py 135-209 *)

DefaultMaxRetries == 3

MaxRetriesCap == 6

DefaultMinBackoffMs == 400

DefaultMaxBackoffMs == 8000

DefaultWaitForModelMs == 25000

WaitForModelCapMs == 120000

\* 144-147 and 154-155: the locals at the start of the call
\* delay_ms: the last sleep; loading: how many answers signalled model loading
HfLocals(maxRetries, minBackoff, maxBackoff, waitMs) ==
    [max_retries |-> Max(0, Min(_env_int(maxRetries, DefaultMaxRetries), MaxRetriesCap)),
     min_backoff_ms |-> Max(100, Min(_env_float(minBackoff, DefaultMinBackoffMs), 10000)),
     max_backoff_ms |-> Max(500, Min(_env_float(maxBackoff, DefaultMaxBackoffMs), 60000)),
     wait_for_model_max_ms |->
         Max(0, Min(_env_int(waitMs, DefaultWaitForModelMs), WaitForModelCapMs)),
     attempt |-> 0,
     elapsed_ms |-> 0,
     delay_ms |-> 0,
     loading |-> 0]

NoHf ==
    [max_retries |-> 0, min_backoff_ms |-> 0, max_backoff_ms |-> 0,
     wait_for_model_max_ms |-> 0, attempt |-> 0, elapsed_ms |-> 0, delay_ms |-> 0,
     loading |-> 0]

\* 149-152; jitter is 100 * (0.75 + 0.5 * (time.time() % 1))
backoff(h, attempt, jitter) ==
    Min(h.max_backoff_ms, (h.min_backoff_ms * Pow2(Max(0, attempt - 1)) * jitter) \div 100)

\* 97-107, in ms
_parse_retry_after_seconds(ans) ==
    IF ~Truthy(ans.retry_after) THEN None
    ELSE IF IsNone(ParseNumber(ans.retry_after[1])) THEN None
    ELSE IF ParseNumber(ans.retry_after[1])[1] < 0 THEN None
    ELSE Some(1000 * ParseNumber(ans.retry_after[1])[1])

\* 162-168: resp_json is not None
HfHasJson(ans) == ans.kind # "notjson"

\* 189-190: the body's error message mentions "loading"
HfIsLoading(ans) ==
    /\ ans.kind = "error"
    /\ Truthy(ans.msg)
    /\ Contains(Lower(ans.msg[1]), << "loading" >>)

\* stands for an estimated_time so large that estimated_s * 1000 is the float
\* infinity, which int() refuses with OverflowError (196)
InfiniteMs == 2000000000

\* 196-197
LoadingDelayMs(ans, remaining_ms) ==
    LET suggested_ms == IF IsNone(ans.est) \/ ans.est = Some(0) THEN 1200 ELSE ans.est[1]
    IN  Max(400, Min(6000, Min(suggested_ms, remaining_ms)))

\* One pass of the loop body (157-209) after the answer to the attempt-th call:
\* what the loop does ("raise", "return" or "sleep") and for how long it sleeps.
HfStep(h, attempt, ans, jitter) ==
    LET retry_after == _parse_retry_after_seconds(ans)
        remaining_ms == h.wait_for_model_max_ms - h.elapsed_ms
    IN  IF ans.status = 0 THEN [do |-> "raise", delay |-> 0]
        ELSE IF ans.status \in {401, 403} THEN [do |-> "raise", delay |-> 0]
        ELSE IF ans.status = 429
        THEN IF attempt > h.max_retries + 1 THEN [do |-> "return", delay |-> 0]
             ELSE [do |-> "sleep",
                   delay |-> IF ~IsNone(retry_after) THEN retry_after[1]
                             ELSE backoff(h, attempt, jitter)]
        ELSE IF /\ ans.status = 503
                /\ h.wait_for_model_max_ms > 0
                /\ HfHasJson(ans)
                /\ HfIsLoading(ans)
        THEN IF remaining_ms <= 0 THEN [do |-> "return", delay |-> 0]
             ELSE IF ans.est = Some(InfiniteMs) THEN [do |-> "raise", delay |-> 0]
             ELSE [do |-> "sleep", delay |-> LoadingDelayMs(ans, remaining_ms)]
        ELSE IF ans.status \in {500, 502, 503, 504} /\ attempt <= h.max_retries
        THEN [do |-> "sleep", delay |-> backoff(h, attempt, jitter)]
        ELSE [do |-> "return", delay |-> 0]

\* the message of the exception an outbound call or the loop raises
HfExceptionText(ans) ==
    CASE ans.status = 401 -> << "Unauthorized: invalid HF_API_KEY" >>
      [] ans.status = 403 -> << "Forbidden: token may not have access to this model" >>
      [] ans.status = 503 -> << "cannot convert float infinity to integer" >>
      [] OTHER -> ans.text

\* analyze_symptoms 534-545: the response to a 200 of the provider
HfSuccess(ans) ==
    IF ans.kind = "notjson" THEN AnalysisFailed(<< "Expecting value" >>)
    ELSE IF ans.kind # "content"
    THEN AnalysisFailed(<< "Unexpected Hugging Face router response format" >>)
    ELSE IF IsNone(_parse_llm_json_output(ans.text)) THEN Response(200, CannedResult)
    ELSE Response(200, _parse_llm_json_output(ans.text)[1])

\* HfRespond with the 429 branch not looking at the soft-fallback flag
HfRespondIgnoringFlag(ans, fallback) ==
    IF ans.status = 200 THEN HfSuccess(ans)
    ELSE IF ans.status = 429 THEN Response(503, HfRateLimitBody)
    ELSE IF ans.status \in {401, 403} THEN Response(500, HfAuthErrorBody(ans.status))
    ELSE IF fallback
    THEN Response(503, _fallback_result(<< "AI provider error ", ToString(ans.status) >>))
    ELSE Response(503, HfServiceErrorBody(ans.status))

\* analyze_symptoms 534-595: the response once _post_hf_with_resilience returned
HfRespond(ans, fallback) ==
    IF ans.status = 200 THEN HfSuccess(ans)
    ELSE IF ans.status = 429
    THEN IF fallback THEN Response(503, _fallback_result(<< "AI provider rate limit" >>))
         ELSE Response(503, HfRateLimitBody)
    ELSE IF ans.status \in {401, 403} THEN Response(500, HfAuthErrorBody(ans.status))
    ELSE IF fallback
    THEN Response(503, _fallback_result(<< "AI provider error ", ToString(ans.status) >>))
    ELSE Response(503, HfServiceErrorBody(ans.status))

\* analyze_symptoms 513-529 and 760-771: the response when the call raised
HfRaised(ans) ==
    IF ans.status \in {401, 403}
    THEN Response(500, HfPermissionErrorBody(HfExceptionText(ans)))
    ELSE AnalysisFailed(HfExceptionText(ans))

---------------------------------------------------------------------------
(* The Gemini path: app.py 327-429 and 655-758 *)

DefaultGeminiModel == << "gemini-1.5-flash" >>

DefaultGeminiBase == << "https://generativelanguage.googleapis.com/v1" >>

\* 657-662
GeminiModels(gemini_model) ==
    << gemini_model, << "gemini-1.5-flash" >>, << "gemini-1.5-flash-latest" >>,
       << "gemini-2.0-flash" >> >>

\* 663-667
GeminiBaseUrls(gemini_base) ==
    << gemini_base, << "https://generativelanguage.googleapis.com/v1" >>,
       << "https://generativelanguage.googleapis.com/v1beta" >> >>

InSeq(x, seq) == \E i \in 1..Len(seq) : seq[i] = x

\* 348-356
RECURSIVE UniqueFrom(_, _)
UniqueFrom(values, result) ==
    IF values = << >> THEN result
    ELSE LET cleaned == Strip(Head(values))
         IN  IF cleaned # << >> /\ ~InSeq(cleaned, result)
             THEN UniqueFrom(Tail(values), Append(result, cleaned))
             ELSE UniqueFrom(Tail(values), result)

_unique_nonempty_strings(values) == UniqueFrom(values, << >>)

\* 392-398 and 413-419: the locals when the first call is about to be made
GeminiLocals(models, base_urls, gemini_base) ==
    LET bases == _unique_nonempty_strings(base_urls)
    IN  [base_candidates |-> IF bases = << >> THEN << gemini_base >> ELSE bases,
         model_candidates |-> _unique_nonempty_strings(models),
         bi |-> 1,
         mi |-> IF _unique_nonempty_strings(models) = << >> THEN 0 ELSE 1,
         k |-> 0]

NoGemini ==
    [base_candidates |-> << >>, model_candidates |-> << >>, bi |-> 0, mi |-> 0, k |-> 0]

\* the (base URL, model) the next call goes to; no model when there is no candidate
GeminiTarget(g) ==
    [base |-> g.base_candidates[g.bi],
     model |-> IF g.mi = 0 THEN None ELSE Some(g.model_candidates[g.mi])]

\* GeminiRetryStatuses with 404 retried as well
GeminiRetryStatusesAnd404 == {404, 429, 500, 502, 503, 504}

GeminiRetryStatuses == {429, 500, 502, 503, 504}

\* GeminiStep with 401 and 403 moving on to the next target, as 404 does
GeminiStepAuthAsNotFound(g, ans) ==
    IF ans.status = 0 THEN "raise"
    ELSE IF g.k < 2 /\ ans.status \in {429, 500, 502, 503, 504} THEN "retry"
    ELSE IF ans.status \notin {401, 403, 404} THEN "return"
    ELSE IF g.mi # 0 /\ g.mi < Len(g.model_candidates) THEN "next_model"
    ELSE IF g.bi < Len(g.base_candidates) THEN "next_base"
    ELSE "return"

\* What follows the answer to a call: "retry" (338-341), "next_model" (421-426),
\* "next_base" (400-406), "return" (345, 426, 429, 406, 409) or "raise".
GeminiStep(g, ans) ==
    IF ans.status = 0 THEN "raise"
    ELSE IF g.k < 2 /\ ans.status \in GeminiRetryStatuses THEN "retry"
    ELSE IF ans.status # 404 THEN "return"
    ELSE IF g.mi # 0 /\ g.mi < Len(g.model_candidates) THEN "next_model"
    ELSE IF g.bi < Len(g.base_candidates) THEN "next_base"
    ELSE "return"

GeminiAdvance(g, do) ==
    CASE do = "retry" -> [g EXCEPT !.k = g.k + 1]
      [] do = "next_model" -> [g EXCEPT !.mi = g.mi + 1, !.k = 0]
      [] do = "next_base" ->
            [g EXCEPT !.bi = g.bi + 1, !.mi = IF g.mi = 0 THEN 0 ELSE 1, !.k = 0]
      [] OTHER -> g

\* 670-691: the response to a 200 of the provider
GeminiSuccess(ans) ==
    IF ans.kind = "notjson" THEN AnalysisFailed(<< "Expecting value" >>)
    ELSE IF ans.kind = "notdict"
    THEN AnalysisFailed(<< "'list' object has no attribute 'get'" >>)
    ELSE IF ans.kind = "empty" THEN AnalysisFailed(<< "Gemini returned no candidates" >>)
    ELSE IF ans.kind # "content" THEN AnalysisFailed(<< "Gemini candidate contained no text" >>)
    ELSE IF IsNone(GeminiParse(ans.text)) THEN Response(200, CannedResult)
    ELSE Response(200, GeminiParse(ans.text)[1])

\* GeminiRespond answering 500 to the provider errors it has no branch for
GeminiRespondOtherAs500(ans, fallback) ==
    IF ans.status = 200 THEN GeminiSuccess(ans)
    ELSE IF ans.status = 429
    THEN IF fallback
         THEN Response(503, _fallback_result(<< "AI provider rate limit or quota exceeded" >>))
         ELSE Response(503, GeminiRateLimitBody(ans))
    ELSE IF ans.status \in {401, 403} THEN Response(500, GeminiAuthErrorBody(ans))
    ELSE IF fallback
    THEN Response(500, _fallback_result(<< "AI provider error ", ToString(ans.status) >>))
    ELSE Response(500, GeminiServiceErrorBody(ans))

\* 670-758: the response once _post_gemini_try_targets returned
GeminiRespond(ans, fallback) ==
    IF ans.status = 200 THEN GeminiSuccess(ans)
    ELSE IF ans.status = 429
    THEN IF fallback
         THEN Response(503, _fallback_result(<< "AI provider rate limit or quota exceeded" >>))
         ELSE Response(503, GeminiRateLimitBody(ans))
    ELSE IF ans.status \in {401, 403} THEN Response(500, GeminiAuthErrorBody(ans))
    ELSE IF fallback
    THEN Response(503, _fallback_result(<< "AI provider error ", ToString(ans.status) >>))
    ELSE Response(503, GeminiServiceErrorBody(ans))

\* NotConfigured answering 503, as the provider errors do
NotConfiguredAsUnavailable(fallback) ==
    IF fallback
    THEN Response(503, _fallback_result(
             << "AI provider not configured (missing HF_API_KEY/HF_MODEL_NAME)" >>))
    ELSE Response(503, NotConfiguredBody)

\* 598-614: the response when no provider is configured
NotConfigured(fallback) ==
    IF fallback
    THEN Response(500, _fallback_result(
             << "AI provider not configured (missing HF_API_KEY/HF_MODEL_NAME)" >>))
    ELSE Response(500, NotConfiguredBody)

---------------------------------------------------------------------------
(* Inputs: what the environment, the clients, the seed file and the        *)
(* provider can hand to the program                                        *)

\* RETURN_FALLBACK_ON_LLM_ERROR in the environment at import
FallbackRaws == { None, Some(<< "0" >>), Some(<< "TRUE" >>), Some(<< " ", "1" >>) }

\* GEMINI_MODEL in the environment at import
GeminiModelRaws == { None, Some(<< " " >>), Some(<< " ", "my-model", " " >>) }

\* GEMINI_API_BASE_URL in the environment at import
GeminiBaseRaws == { None, Some(<< " ", "https://generativelanguage.googleapis.com/v1", " " >>) }

\* 44-50: no strip here
ImportFallback(raw) == Lower(IF IsNone(raw) THEN << "1" >> ELSE raw[1]) \in TrueWords

\* 37
ImportGeminiModel(raw) == OrElse(_env_str(raw, Some(DefaultGeminiModel)), DefaultGeminiModel)

\* 40
ImportGeminiBase(raw) == OrElse(_env_str(raw, Some(DefaultGeminiBase)), DefaultGeminiBase)

CacheFlagRaws == { None, Some(<< "0" >>), Some(<< " ", "ON" >>) }

PrefixRaws == { None, Some(<< " " >>), Some(<< "p" >>), Some(<< "q" >>) }

\* REDIS_SEED_PREFIX in the environment of the seeding script
SeedPrefixRaws == { None, Some(<< " " >>) }

HfKeyRaws == { None, Some(<< "hf_key" >>) }

HfModelRaws == { Some(<< " " >>), Some(<< "hf-model" >>) }

GeminiKeyRaws == { None, Some(<< " " >>), Some(<< "gemini_key" >>) }

HfMaxRetriesRaws == { None, Some(<< "0" >>), Some(<< "1" >>) }

HfWaitRaws == { Some(<< "0" >>), Some(<< "1000" >>) }

HfMinBackoffRaws == { None }

HfMaxBackoffRaws == { None }

\* 151: 100 * (0.75 + 0.5 * (time.time() % 1)) lies in [75, 125)
Jitters == { 75, 124 }

ResultA ==
    Dict([conditions |-> ListV(<< "Common cold", "Flu" >>),
          recommendations |-> Str(<< "Rest and fluids." >>),
          disclaimer |-> Str(<< "Educational only." >>)])

\* a result the seed file gives more than the three fields
ResultB ==
    Dict([conditions |-> ListV(<< "Migraine" >>),
          recommendations |-> Str(<< "Rest in a dark room." >>),
          disclaimer |-> Str(<< "Educational only." >>),
          source |-> Str(<< "seed" >>)])

SeedItem(symptoms, result) == Dict([symptoms |-> symptoms, result |-> result])

\* seed_data.json as parsed
SeedFiles ==
    { ListV(<< SeedItem(Str(<< "a", " " >>), ResultA),
               Null,
               SeedItem(Num("1"), ResultA),
               SeedItem(Str(<< "c" >>), Dict([conditions |-> Str(<< "x" >>)])),
               SeedItem(Str(<< "A", " ", " ", "b" >>), ResultB) >>),
      Dict(EmptyF) }

EmptyStore == [k \in {} |-> EmptyText]

\* What the store holds before the seeding script has run: values that are not
\* seeded results under some keys, nothing under the others.
InitialStore ==
    StoreSet(StoreSet(StoreSet(StoreSet(EmptyStore,
        _redis_seed_key(DefaultPrefix, << "a" >>), NotJsonText),
        _redis_seed_key(<< "p" >>, << "a" >>),
            json_dumps(Dict([conditions |-> ListV(<< "Flu" >>),
                             recommendations |-> Num("1"),
                             disclaimer |-> Str(<< "Educational only." >>)]))),
        _redis_seed_key(<< "p" >>, << "a", " ", "b" >>), json_dumps(ListV(<< >>))),
        _redis_seed_key(<< "q" >>, << "a" >>), EmptyText)

\* request.get_json(silent=True): None, or the body's JSON value
Bodies ==
    { None,
      Some(ListV(<< >>)),
      Some(Dict(EmptyF)),
      Some(Dict([symptoms |-> Num("1")])),
      Some(Dict([symptoms |-> Str(<< " " >>)])),
      Some(Dict([symptoms |-> Str(<< " ", "A" >>)])),
      Some(Dict([symptoms |-> Str(<< "a", " ", "B", " " >>)])) }

\* the model's output texts
LlmTexts ==
    { << "{", "K3", "}" >>,
      << Fence, "json", " ", "{", "K3", "}", " ", Fence >>,
      << "{", "K1", "}" >>,
      << "[", "]" >>,
      << "w" >> }

ErrorAnswer(status) == Answer(status, None, "error", Some(<< "Error" >>), None, << >>)

\* requests.post raised: text is str(exc)
Raised(text) == Answer(0, None, "none", None, None, text)

\* str(exc) of a timeout, and of a connection error, which names the request URL
TimeoutText == << "Read timed out." >>

HfConnectionErrorText ==
    << "Max retries exceeded with url: ", "/v1/chat/completions" >>

GeminiConnectionErrorText ==
    << "Max retries exceeded with url: ", "/v1/models/gemini-1.5-flash:generateContent",
       "?key=", "gemini_key" >>

HfAnswers ==
    { Answer(200, None, "content", None, None, t) : t \in LlmTexts }
    \cup { Answer(200, None, k, None, None, << >>) : k \in {"notjson", "empty"} }
    \cup { ErrorAnswer(s) : s \in {400, 401, 403, 404, 500, 503} }
    \cup { Answer(429, ra, "error", Some(<< "Rate", " ", "limit" >>), None, << >>) :
             ra \in { None, Some(<< "9" >>), Some(<< "-2" >>) } }
    \cup { Answer(503, None, "error", Some(<< "Model", " ", "is", " ", "Loading" >>), e, << >>) :
             e \in { None, Some(700), Some(InfiniteMs) } }
    \cup { Answer(503, None, "notjson", None, None, << >>) }
    \cup { Raised(TimeoutText), Raised(HfConnectionErrorText) }

GeminiAnswers ==
    { Answer(200, None, "content", None, None, t) : t \in LlmTexts }
    \cup { Answer(200, None, k, None, None, << >>) :
             k \in {"notjson", "notdict", "empty", "notext"} }
    \cup { ErrorAnswer(s) : s \in {400, 401, 403, 404, 429, 503} }
    \cup { Answer(500, None, "notjson", None, None, << >>) }
    \cup { Raised(TimeoutText), Raised(GeminiConnectionErrorText) }

---------------------------------------------------------------------------
(* The state machine *)

\* no outbound call answered yet
NoStatus == 0 - 1

\* the answers so far had different statuses
Mixed == 0 - 2

Uniform(u, calls, status) ==
    IF calls = 0 THEN status ELSE IF u = status THEN u ELSE Mixed

NoLookup ==
    [attempted |-> FALSE, flag |-> None, prefix |-> None, pkg |-> FALSE, up |-> FALSE,
     held |-> None, result |-> None]

NoCfg == [read |-> FALSE, hf_key |-> None, hf_model |-> None, gemini_key |-> None]

DefaultHfBase == << "https://router.huggingface.co/v1" >>

\* the service after import, with the environment given
Started(fallbackRaw, modelRaw, baseRaw) ==
    /\ RETURN_FALLBACK_ON_LLM_ERROR = ImportFallback(fallbackRaw)
    /\ GEMINI_MODEL = ImportGeminiModel(modelRaw)
    /\ GEMINI_API_BASE_URL = ImportGeminiBase(baseRaw)
    /\ store = InitialStore
    /\ pc = "idle"
    /\ req = None
    /\ lookup = NoLookup
    /\ cfg = NoCfg
    /\ hf = NoHf
    /\ gem = NoGemini
    /\ last = NoAnswer
    /\ nCalls = 0
    /\ nLookups = 0
    /\ targets = << >>
    /\ uniform = NoStatus
    /\ resp = None
    /\ home = None

\* no handler thread runs
AtRest ==
    /\ environ = None
    /\ dotenv = None
    /\ workers = << >>

Init ==
    /\ AtRest
    /\ \E fallbackRaw \in FallbackRaws, modelRaw \in GeminiModelRaws, baseRaw \in GeminiBaseRaws :
          Started(fallbackRaw, modelRaw, baseRaw)
    /\ fn = "none"
    /\ arg = << >>
    /\ out = None

\* seed_redis.py main(), run out of process at any time
Seed(prefix, pkg, up, payload) ==
    /\ store' = seed_main(prefix, pkg, up, payload, store)
    /\ UNCHANGED << home, aside, conc >>
    /\ UNCHANGED << RETURN_FALLBACK_ON_LLM_ERROR, GEMINI_MODEL, GEMINI_API_BASE_URL,
                    pc, req, lookup, cfg, hf, gem, last, nCalls, nLookups, targets,
                    uniform, resp >>

\* SymptomsOf without the strip
SymptomsOfUnstripped(data) ==
    LET symptoms_value == IF "symptoms" \in DOMAIN data.f THEN data.f["symptoms"]
                          ELSE Str(<< >>)
    IN  IF symptoms_value.t = "str" THEN symptoms_value.v ELSE << >>

\* 473-474: the text the handler goes on with
SymptomsOf(data) ==
    LET symptoms_value == IF "symptoms" \in DOMAIN data.f THEN data.f["symptoms"]
                          ELSE Str(<< >>)
    IN  IF symptoms_value.t = "str" THEN Strip(symptoms_value.v) ELSE << >>

\* analyze_symptoms 462-480: a request arrives, is validated and looked up
Receive(body, flag, prefix, pkg, up) ==
    /\ pc = "idle"
    /\ req' = Some(body)
    /\ IF IsNone(body) \/ body[1].t # "dict"
       THEN /\ resp' = Some(Response(400, InvalidBodyError))
            /\ pc' = "done"
            /\ UNCHANGED << lookup, nLookups >>
       ELSE IF SymptomsOf(body[1]) = << >>
       THEN /\ resp' = Some(Response(400, NoSymptomsError))
            /\ pc' = "done"
            /\ UNCHANGED << lookup, nLookups >>
       ELSE LET symptoms == SymptomsOf(body[1])
                seeded == _try_get_seeded_result(symptoms, flag, prefix, pkg, up, store)
                pfx == OrElse(_env_str(prefix, Some(DefaultPrefix)), DefaultPrefix)
            IN  /\ nLookups' = nLookups + 1
                /\ lookup' = [attempted |-> TRUE, flag |-> flag, prefix |-> prefix,
                              pkg |-> pkg, up |-> up,
                              held |-> StoreGet(store, _redis_seed_key(pfx, symptoms)),
                              result |-> seeded]
                /\ IF ~IsNone(seeded)
                   THEN resp' = Some(Response(200, seeded[1])) /\ pc' = "done"
                   ELSE resp' = None /\ pc' = "dispatch"
    /\ UNCHANGED << home, aside, conc >>
    /\ UNCHANGED << RETURN_FALLBACK_ON_LLM_ERROR, GEMINI_MODEL, GEMINI_API_BASE_URL,
                    store, cfg, hf, gem, last, nCalls, targets, uniform >>

\* analyze_symptoms 482-510 and 597-668: the provider is chosen
Dispatch(hfKey, hfModel, geminiKey, maxRetries, minBackoff, maxBackoff, waitMs) ==
    LET hf_key == _env_str(hfKey, None)
        hf_model == _env_str(hfModel, None)
        gemini_key == _env_str(geminiKey, None)
    IN  /\ pc = "dispatch"
        /\ lookup' = NoLookup
        /\ IF Truthy(hf_key) /\ Truthy(hf_model)
           THEN /\ cfg' = [read |-> TRUE, hf_key |-> hf_key, hf_model |-> hf_model,
                           gemini_key |-> None]
                /\ hf' = HfLocals(maxRetries, minBackoff, maxBackoff, waitMs)
                /\ pc' = "hf"
                /\ UNCHANGED << gem, resp >>
           ELSE /\ cfg' = [read |-> TRUE, hf_key |-> hf_key, hf_model |-> hf_model,
                           gemini_key |-> gemini_key]
                /\ IF ~Truthy(gemini_key)
                   THEN /\ resp' = Some(NotConfigured(RETURN_FALLBACK_ON_LLM_ERROR))
                        /\ pc' = "done"
                        /\ UNCHANGED << hf, gem >>
                   ELSE /\ gem' = GeminiLocals(GeminiModels(GEMINI_MODEL),
                                               GeminiBaseUrls(GEMINI_API_BASE_URL),
                                               GEMINI_API_BASE_URL)
                        /\ pc' = "gemini"
                        /\ UNCHANGED << hf, resp >>
        /\ UNCHANGED << home, aside, conc >>
        /\ UNCHANGED << RETURN_FALLBACK_ON_LLM_ERROR, GEMINI_MODEL, GEMINI_API_BASE_URL,
                        store, req, last, nCalls, nLookups, targets, uniform >>

Logged(log, target) ==
    IF log # << >> /\ log[Len(log)] = target THEN log ELSE Append(log, target)

\* one pass of the loop of _post_hf_with_resilience: an outbound call, its answer,
\* and either the sleep before the next call or the handler's response
HfAttempt(ans, jitter) ==
    LET attempt == hf.attempt + 1
        step == HfStep(hf, attempt, ans, jitter)
    IN  /\ pc = "hf"
        /\ nCalls' = nCalls + 1
        /\ last' = ans
        /\ uniform' = Uniform(uniform, nCalls, ans.status)
        /\ targets' = Logged(targets, [base |-> DefaultHfBase, model |-> cfg.hf_model])
        /\ IF step.do = "raise"
           THEN resp' = Some(HfRaised(ans)) /\ pc' = "done" /\ hf' = NoHf
           ELSE IF step.do = "return"
           THEN /\ resp' = Some(HfRespond(ans, RETURN_FALLBACK_ON_LLM_ERROR))
                /\ pc' = "done"
                /\ hf' = NoHf
           ELSE /\ resp' = None
                /\ pc' = "hf"
                /\ hf' = [hf EXCEPT !.attempt = attempt,
                                    !.elapsed_ms = hf.elapsed_ms + step.delay,
                                    !.delay_ms = step.delay,
                                    !.loading = IF ans.status = 503 /\ HfIsLoading(ans)
                                                THEN hf.loading + 1 ELSE hf.loading]
        /\ UNCHANGED << home, aside, conc >>
        /\ UNCHANGED << RETURN_FALLBACK_ON_LLM_ERROR, GEMINI_MODEL, GEMINI_API_BASE_URL,
                        store, req, lookup, cfg, gem, nLookups >>

\* one outbound call of _post_gemini_with_retries, its answer, and either the move
\* to the next call (a retry, the next model, the next base URL) or the response
GeminiAttempt(ans) ==
    LET do == GeminiStep(gem, ans)
    IN  /\ pc = "gemini"
        /\ nCalls' = nCalls + 1
        /\ last' = ans
        /\ uniform' = Uniform(uniform, nCalls, ans.status)
        /\ targets' = Logged(targets, GeminiTarget(gem))
        /\ IF do = "raise"
           THEN resp' = Some(AnalysisFailed(ans.text)) /\ pc' = "done"
                /\ gem' = NoGemini
           ELSE IF do = "return"
           THEN /\ resp' = Some(GeminiRespond(ans, RETURN_FALLBACK_ON_LLM_ERROR))
                /\ pc' = "done"
                /\ gem' = NoGemini
           ELSE /\ resp' = None
                /\ pc' = "gemini"
                /\ gem' = GeminiAdvance(gem, do)
        /\ UNCHANGED << home, aside, conc >>
        /\ UNCHANGED << RETURN_FALLBACK_ON_LLM_ERROR, GEMINI_MODEL, GEMINI_API_BASE_URL,
                        store, req, lookup, cfg, hf, nLookups >>

\* Finish writing a successful result to the store
FinishStoring ==
    /\ pc = "done"
    /\ pc' = "idle"
    /\ store' = IF resp[1].status = 200
                 THEN StoreSet(store, _redis_seed_key(DefaultPrefix, << "a" >>),
                               json_dumps(resp[1].body))
                 ELSE store
    /\ req' = None
    /\ lookup' = NoLookup
    /\ cfg' = NoCfg
    /\ hf' = NoHf
    /\ gem' = NoGemini
    /\ last' = NoAnswer
    /\ nCalls' = 0
    /\ nLookups' = 0
    /\ targets' = << >>
    /\ uniform' = NoStatus
    /\ resp' = None
    /\ UNCHANGED << home, aside, conc >>
    /\ UNCHANGED << RETURN_FALLBACK_ON_LLM_ERROR, GEMINI_MODEL, GEMINI_API_BASE_URL >>

\* the response is sent; nothing of the request is kept
Finish ==
    /\ pc = "done"
    /\ pc' = "idle"
    /\ req' = None
    /\ lookup' = NoLookup
    /\ cfg' = NoCfg
    /\ hf' = NoHf
    /\ gem' = NoGemini
    /\ last' = NoAnswer
    /\ nCalls' = 0
    /\ nLookups' = 0
    /\ targets' = << >>
    /\ uniform' = NoStatus
    /\ resp' = None
    /\ UNCHANGED << home, aside, conc >>
    /\ UNCHANGED << RETURN_FALLBACK_ON_LLM_ERROR, GEMINI_MODEL, GEMINI_API_BASE_URL, store >>

\* HomeBody without the endpoints
HomeBodyStatusOnly ==
    Dict([status |-> Str(<< "running" >>),
          message |-> Str(<< "Symptom Checker backend with LLM-Powered AI is running!" >>)])

\* 449-457
HomeBody ==
    Dict([status |-> Str(<< "running" >>),
          message |-> Str(<< "Symptom Checker backend with LLM-Powered AI is running!" >>),
          endpoints |->
              Dict([analyze |-> Str(<< "POST /analyze - Analyze symptoms using AI" >>)])])

\* home(): GET / is answered, at any time
Home ==
    /\ home' = Some(Response(200, HomeBody))
    /\ UNCHANGED << RETURN_FALLBACK_ON_LLM_ERROR, GEMINI_MODEL, GEMINI_API_BASE_URL,
                    store, pc, req, lookup, cfg, hf, gem, last, nCalls, nLookups,
                    targets, uniform, resp, aside, conc >>

Next ==
    \/ \E prefix \in SeedPrefixRaws, pkg \in BOOLEAN, up \in BOOLEAN, payload \in SeedFiles :
          Seed(prefix, pkg, up, payload)
    \/ \E body \in Bodies, flag \in CacheFlagRaws, prefix \in PrefixRaws,
          pkg \in BOOLEAN, up \in BOOLEAN :
          Receive(body, flag, prefix, pkg, up)
    \/ \E hfKey \in HfKeyRaws, hfModel \in HfModelRaws, geminiKey \in GeminiKeyRaws,
          maxRetries \in HfMaxRetriesRaws, minBackoff \in HfMinBackoffRaws,
          maxBackoff \in HfMaxBackoffRaws, waitMs \in HfWaitRaws :
          Dispatch(hfKey, hfModel, geminiKey, maxRetries, minBackoff, maxBackoff, waitMs)
    \/ \E ans \in HfAnswers, jitter \in Jitters : HfAttempt(ans, jitter)
    \/ \E ans \in GeminiAnswers : GeminiAttempt(ans)
    \/ Finish
    \/ Home

Spec == Init /\ [][Next]_vars

---------------------------------------------------------------------------
(* What the claims speak of *)

Responded == ~IsNone(resp)

Status == resp[1].status

Body == resp[1].body

CodeIs(code) == Get(Body, "code") = Str(<< code >>)

ResultFields == {"conditions", "recommendations", "disclaimer"}

\* an object with conditions (a list), recommendations and disclaimer (strings)
CarriesThreeFields(b) ==
    /\ b.t = "dict"
    /\ ResultFields \subseteq DOMAIN b.f
    /\ b.f["conditions"].t = "list"
    /\ b.f["recommendations"].t = "str"
    /\ b.f["disclaimer"].t = "str"

\* an object restricted to the three fields
OnlyThreeFields(b) == Dict([k \in DOMAIN b.f \cap ResultFields |-> b.f[k]])

\* the request went to Hugging Face / to Gemini
OnHfPath == cfg.read /\ Truthy(cfg.hf_key) /\ Truthy(cfg.hf_model)

OnGeminiPath == cfg.read /\ ~(Truthy(cfg.hf_key) /\ Truthy(cfg.hf_model)) /\ Truthy(cfg.gemini_key)

---------------------------------------------------------------------------
\* C1: once an outbound attempt has answered 401 or 403, the handler has responded
\* 500 with code LLM_AUTH_ERROR (so no further outbound call is made for the
\* request), and when the first attempt answered 401 exactly one call was made.
C1_AuthFailureIsTerminal ==
    /\ last.status \in {401, 403} =>
          /\ pc = "done"
          /\ Responded
          /\ Status = 500
          /\ CodeIs("LLM_AUTH_ERROR")
    /\ (last.status = 401 /\ uniform = 401) => nCalls = 1

\* an authentication failure met on the Gemini path after earlier attempts
C1_Witness ==
    /\ pc = "done"
    /\ OnGeminiPath
    /\ last.status = 403
    /\ nCalls > 1
    /\ Len(targets) > 1
    /\ CodeIs("LLM_AUTH_ERROR")

---------------------------------------------------------------------------
\* the de-duplicated non-empty base URLs and model ids the handler passes
C2_B == _unique_nonempty_strings(GeminiBaseUrls(GEMINI_API_BASE_URL))

C2_M == _unique_nonempty_strings(GeminiModels(GEMINI_MODEL))

\* the (base URL, model) pairs in list order: base URLs in order, and for each
\* base URL the models in order
C2_Pairs ==
    [i \in 1..(Len(C2_B) * Len(C2_M)) |->
        [base |-> C2_B[((i - 1) \div Len(C2_M)) + 1],
         model |-> Some(C2_M[((i - 1) % Len(C2_M)) + 1])]]

\* C2: while the provider has answered 404 to every call, the calls made are the
\* first pairs of the list, one call each; and when _post_gemini_try_targets has
\* returned, |B| x |M| calls were made, one per pair in list order, and the answer
\* handed back is the 404 of the last pair.
C2_AllTargetsTriedOnce ==
    (OnGeminiPath /\ uniform = 404) =>
        /\ nCalls = Len(targets)
        /\ nCalls <= Len(C2_Pairs)
        /\ targets = SubSeq(C2_Pairs, 1, nCalls)
        /\ pc = "done" =>
              /\ nCalls = Len(C2_B) * Len(C2_M)
              /\ last.status = 404
              /\ targets[Len(targets)] = C2_Pairs[Len(C2_Pairs)]

\* every answer was 404 and GEMINI_MODEL adds a fourth model to the list
C2_Witness ==
    /\ pc = "done"
    /\ OnGeminiPath
    /\ uniform = 404
    /\ Len(C2_M) = 4
    /\ nCalls = 8

---------------------------------------------------------------------------
\* the lookup was enabled and the store answered
C3_LookupWorked ==
    /\ lookup.attempted
    /\ ~IsNone(lookup.flag)
    /\ Lower(Strip(lookup.flag[1])) \in TrueWords
    /\ lookup.pkg
    /\ lookup.up

\* the stores the seeding step can write into an empty store
C3_SeededStores ==
    { seed_main(prefix, TRUE, TRUE, payload, EmptyStore) :
        prefix \in SeedPrefixRaws \cup PrefixRaws, payload \in SeedFiles }

\* the key of the request: the prefix in force and the digest of the normalized text
C3_RequestKey ==
    [prefix |-> IF Truthy(_env_str(lookup.prefix, None))
                THEN Strip(lookup.prefix[1]) ELSE DefaultPrefix,
     digest |-> Sha256Hex(_normalize_symptoms(req[1][1].f["symptoms"].v))]

\* the entry the lookup met is one the seeding step wrote, under the request's key
C3_HeldIsSeeded ==
    /\ ~IsNone(lookup.held)
    /\ \E st \in C3_SeededStores :
          /\ C3_RequestKey \in DOMAIN st
          /\ st[C3_RequestKey] = lookup.held[1]

---------------------------------------------------------------------------
\* a text that is empty once trimmed
C4_Blank(text) == \A i \in 1..Len(text) : text[i] = " "

\* the body is missing or no valid JSON (get_json gave None), is no object, or its
\* symptoms value is missing, no string, or blank
C4_InvalidRequest(body) ==
    \/ IsNone(body)
    \/ body[1].t # "dict"
    \/ "symptoms" \notin DOMAIN body[1].f
    \/ body[1].f["symptoms"].t # "str"
    \/ C4_Blank(body[1].f["symptoms"].v)

\* C4: an invalid request is answered 400 with an error field, without a cache
\* lookup and without an outbound call.
C4_InvalidRequestIs400 ==
    (~IsNone(req) /\ C4_InvalidRequest(req[1])) =>
        /\ pc = "done"
        /\ Responded
        /\ Status = 400
        /\ "error" \in DOMAIN Body.f
        /\ nLookups = 0
        /\ nCalls = 0
        /\ ~lookup.attempted

\* a request whose symptoms are whitespace was answered 400
C4_Witness ==
    /\ pc = "done"
    /\ req = Some(Some(Dict([symptoms |-> Str(<< " " >>)])))
    /\ Status = 400
    /\ nLookups = 0

---------------------------------------------------------------------------
\* C5: every 200 response has a body with conditions (a list), recommendations and
\* disclaimer (strings).
C5_SuccessCarriesThreeFields ==
    (Responded /\ Status = 200) => CarriesThreeFields(Body)

---------------------------------------------------------------------------
\* C6 as stated: every response other than 200 carries the three fields.
C6_FailureCarriesThreeFields ==
    (Responded /\ Status # 200) => CarriesThreeFields(Body)

\* C6 as amended: every response other than 200 is a 400 whose body holds the
\* error field alone, or a 500 or 503 that carries the three fields.
C6_ServerFailureCarriesThreeFields ==
    (Responded /\ Status # 200) =>
        \/ Status = 400 /\ Body.t = "dict" /\ DOMAIN Body.f = {"error"}
        \/ Status \in {500, 503} /\ CarriesThreeFields(Body)

\* an exception of the outbound call answered 500 with the three fields
C6_Witness ==
    /\ Responded
    /\ Status = 500
    /\ last.status = 0
    /\ nCalls > 0
    /\ CarriesThreeFields(Body)
    /\ "code" \notin DOMAIN Body.f

---------------------------------------------------------------------------
\* the model's text holds no JSON value at all
C7_NoJsonIn(text) == \A i \in 1..Len(text) : text[i] \notin {"{", "[", "1"}

\* C7: when the provider's final answer is a 200, the response is a 200, and it is
\* the canned result when the model's text cannot be extracted from the answer or
\* holds no JSON.
C7_ProviderSuccessIs200 ==
    (pc = "done" /\ last.status = 200) =>
        /\ Status = 200
        /\ (last.kind # "content" \/ C7_NoJsonIn(last.text)) => Body = CannedResult

---------------------------------------------------------------------------
\* a text that reads "temporarily unavailable" / that advises to consult a professional
C8_SaysUnavailable(item) == item \in { "AI analysis temporarily unavailable" }

C8_SaysConsult(part) == part \in { "Always consult a qualified medical professional." }

---------------------------------------------------------------------------
\* a stored value that is JSON for an object with the three fields of the right types
C9_IsAnalysisResult(raw) ==
    /\ raw.kind = "json"
    /\ raw.val.t = "dict"
    /\ ResultFields \subseteq DOMAIN raw.val.f
    /\ raw.val.f["conditions"].t = "list"
    /\ raw.val.f["recommendations"].t = "str"
    /\ raw.val.f["disclaimer"].t = "str"

\* the flag is off, the package is missing, the store is unreachable, the key is
\* absent, or the stored value is no JSON or no AnalysisResult
C9_MustMiss ==
    \/ IsNone(lookup.flag)
    \/ Lower(Strip(lookup.flag[1])) \notin TrueWords
    \/ ~lookup.pkg
    \/ ~lookup.up
    \/ IsNone(lookup.held)
    \/ ~C9_IsAnalysisResult(lookup.held[1])

\* C9: in each of these cases the lookup is a miss and raises nothing: the handler
\* has made no response and goes on to choose the provider, in the state it is in
\* when the cache is disabled.
C9_LookupFailureIsMiss ==
    (lookup.attempted /\ C9_MustMiss) =>
        /\ IsNone(lookup.result)
        /\ pc = "dispatch"
        /\ ~Responded
        /\ nCalls = 0
        /\ cfg = NoCfg
        /\ hf = NoHf
        /\ gem = NoGemini

\* an enabled lookup on a reachable store met JSON for an object that is no
\* AnalysisResult
C9_Witness ==
    /\ lookup.attempted
    /\ C3_LookupWorked
    /\ ~IsNone(lookup.held)
    /\ lookup.held[1].kind = "json"
    /\ lookup.held[1].val.t = "dict"
    /\ ~C9_IsAnalysisResult(lookup.held[1])
    /\ pc = "dispatch"

---------------------------------------------------------------------------
\* neither the Hugging Face pair nor the Gemini key is configured
C10_NothingConfigured ==
    /\ cfg.read
    /\ ~(Truthy(cfg.hf_key) /\ Truthy(cfg.hf_model))
    /\ ~Truthy(cfg.gemini_key)

\* C10 as stated: with no provider configured the response is 500 with code
\* LLM_NOT_CONFIGURED, and no outbound call is made.
C10_NotConfiguredCode ==
    C10_NothingConfigured =>
        /\ pc = "done"
        /\ Responded
        /\ Status = 500
        /\ CodeIs("LLM_NOT_CONFIGURED")
        /\ nCalls = 0

\* C10 as amended: with no provider configured the response is 500 and no outbound
\* call is made; the code is LLM_NOT_CONFIGURED when the soft-fallback flag is off
\* and LLM_FALLBACK, with a reason that says no provider is configured, when it is on.
C10_NotConfiguredIs500 ==
    C10_NothingConfigured =>
        /\ pc = "done"
        /\ Responded
        /\ Status = 500
        /\ nCalls = 0
        /\ CarriesThreeFields(Body)
        /\ ~RETURN_FALLBACK_ON_LLM_ERROR => CodeIs("LLM_NOT_CONFIGURED")
        /\ RETURN_FALLBACK_ON_LLM_ERROR =>
              /\ CodeIs("LLM_FALLBACK")
              /\ Get(Body, "reason") =
                    Str(<< "AI provider not configured (missing HF_API_KEY/HF_MODEL_NAME)" >>)

\* a Hugging Face key without a model and a blank Gemini key, the flag on
C10_Witness ==
    /\ pc = "done"
    /\ C10_NothingConfigured
    /\ Truthy(cfg.hf_key)
    /\ cfg.gemini_key = Some(<< >>)
    /\ RETURN_FALLBACK_ON_LLM_ERROR
    /\ Status = 500
    /\ nLookups = 1

---------------------------------------------------------------------------
\* the provider's final answer is an HTTP answer with a status the handler has no
\* branch of its own for
C11_OtherProviderError ==
    /\ pc = "done"
    /\ nCalls > 0
    /\ last.status \notin {0, 200, 401, 403, 429}

\* C11: when the provider's final answer has a status other than 200, 401, 403 or
\* 429, the response is 503: with code LLM_ERROR when the soft-fallback flag is off,
\* with the soft-fallback body (code LLM_FALLBACK) when it is on.
C11_OtherProviderErrorIs503 ==
    C11_OtherProviderError =>
        /\ Responded
        /\ Status = 503
        /\ ~RETURN_FALLBACK_ON_LLM_ERROR =>
              /\ CodeIs("LLM_ERROR")
              /\ Get(Body, "error") = Str(<< "LLM service error" >>)
        /\ RETURN_FALLBACK_ON_LLM_ERROR =>
              /\ CodeIs("LLM_FALLBACK")
              /\ Get(Body, "conditions") = ListV(<< "AI analysis temporarily unavailable" >>)

\* a 404 of the last Gemini target, the flag off
C11_Witness ==
    /\ C11_OtherProviderError
    /\ OnGeminiPath
    /\ last.status = 404
    /\ nCalls >= 6
    /\ ~RETURN_FALLBACK_ON_LLM_ERROR
    /\ Status = 503

---------------------------------------------------------------------------
\* the tokens of a text
C12_TokensOf(text) == { text[i] : i \in 1..Len(text) }

\* C12: when the outbound call raised, the response is 500 with a failure body that
\* holds nothing of the exception's text (nor the credential of the request URL), so
\* that runs that differ in the exception's message alone get the same body.
C12_FailureBodyIsGeneric ==
    (pc = "done" /\ last.status = 0) =>
        /\ Responded
        /\ Status = 500
        /\ CarriesThreeFields(Body)
        /\ \A field \in DOMAIN Body.f :
              /\ C12_TokensOf(Body.f[field].v) \cap C12_TokensOf(last.text) = {}
              /\ Truthy(cfg.gemini_key) =>
                    C12_TokensOf(Body.f[field].v) \cap C12_TokensOf(cfg.gemini_key[1]) = {}

---------------------------------------------------------------------------
(* The normalizer of the model's output, applied on its own to every text *)
(* made of a few pieces                                                   *)

MaxPieces == 5

ParsePieces ==
    { << Fence >>, << Fence, "json" >>, << "{", "K3", "}" >>, << "w" >>, << " " >> }

\* the texts made of at most n pieces
RECURSIVE TextsOf(_, _)
TextsOf(pieces, n) ==
    IF n = 0 THEN { << >> }
    ELSE LET shorter == TextsOf(pieces, n - 1)
         IN  shorter \cup { t \o piece : t \in shorter, piece \in pieces }

InitParse ==
    /\ AtRest
    /\ Started(None, None, None)
    /\ fn = "none"
    /\ arg \in TextsOf(ParsePieces, MaxPieces)
    /\ out = None

\* analyze_symptoms 538: the Hugging Face branch parses the text
ApplyHfParse ==
    /\ fn = "none"
    /\ fn' = "_parse_llm_json_output"
    /\ out' = _parse_llm_json_output(arg)
    /\ UNCHANGED << service, arg, conc >>

\* analyze_symptoms 674-683: the Gemini branch parses the text
ApplyGeminiParse ==
    /\ fn = "none"
    /\ fn' = "analyze_symptoms"
    /\ out' = GeminiParse(arg)
    /\ UNCHANGED << service, arg, conc >>

NextParse == ApplyHfParse \/ ApplyGeminiParse

SpecParse == InitParse /\ [][NextParse]_vars

---------------------------------------------------------------------------
\* the position of the first token tok of a text that holds one
C13_First(text, tok) ==
    CHOOSE i \in 1..Len(text) : text[i] = tok /\ \A j \in 1..(i - 1) : text[j] # tok

C13_Has(text, tok) == \E i \in 1..Len(text) : text[i] = tok

\* what a text holds from position i up to the next fence marker, or to its end
C13_BlockFrom(text, i) ==
    LET rest == SubSeq(text, i, Len(text))
    IN  IF C13_Has(rest, Fence) THEN SubSeq(rest, 1, C13_First(rest, Fence) - 1) ELSE rest

\* a fence marker at position i is tagged json
C13_Tagged(text, i) == text[i] = Fence /\ i < Len(text) /\ text[i + 1] = "json"

\* the content of the first fenced block, tagged or bare
C13_FirstBlock(text) ==
    LET i == C13_First(text, Fence)
    IN  C13_BlockFrom(text, IF C13_Tagged(text, i) THEN i + 2 ELSE i + 1)

\* the content of the first block tagged json
C13_FirstTaggedBlock(text) ==
    LET i == CHOOSE i \in 1..Len(text) :
                 C13_Tagged(text, i) /\ \A j \in 1..(i - 1) : ~C13_Tagged(text, j)
    IN  C13_BlockFrom(text, i + 2)

\* the value of a block's content: the object with the three fields, or nothing
\* when the content is no JSON
C13_ValueOf(content) ==
    IF SelectSeq(content, LAMBDA c : c # " ") = << "{", "K3", "}" >>
    THEN Some(Dict([conditions |-> ListV(<< "A" >>),
                    recommendations |-> Str(<< "R" >>),
                    disclaimer |-> Str(<< "D" >>)]))
    ELSE None

\* C13 as stated: on a text with fenced blocks the normalizer parses the content of
\* the first fenced block, tagged json or bare, and returns the object it holds.
C13_FirstBlockWins ==
    (fn # "none" /\ C13_Has(arg, Fence)) => out = C13_ValueOf(C13_FirstBlock(arg))

\* C13 as amended: on a text with fenced blocks the normalizer parses the content
\* of the first block tagged json when there is one, wherever it stands, and of the
\* first fenced block otherwise, and returns the object it holds.
C13_FirstTaggedBlockWins ==
    (fn # "none" /\ C13_Has(arg, Fence)) =>
        IF \E i \in 1..Len(arg) : C13_Tagged(arg, i)
        THEN out = C13_ValueOf(C13_FirstTaggedBlock(arg))
        ELSE out = C13_ValueOf(C13_FirstBlock(arg))

\* a bare fence and then a block tagged json that holds the object
C13_Witness ==
    /\ fn = "_parse_llm_json_output"
    /\ arg = << Fence, "w", Fence, "json", "{", "K3", "}" >>
    /\ out = C13_ValueOf(<< "{", "K3", "}" >>)

---------------------------------------------------------------------------
(* The normalization and the cache key, applied on their own to every pair *)
(* of short texts                                                          *)

MaxChars == 4

KeyChars == { "a", "A", " " }

KeyPrefixes == { << "symptom-checker:seed" >>, << "p" >> }

\* the texts of at most n characters
RECURSIVE CharTexts(_)
CharTexts(n) ==
    IF n = 0 THEN { << >> }
    ELSE CharTexts(n - 1) \cup { Append(t, c) : t \in CharTexts(n - 1), c \in KeyChars }

InitKey ==
    /\ AtRest
    /\ Started(None, None, None)
    /\ fn = "none"
    /\ arg \in [prefix : KeyPrefixes, text : CharTexts(MaxChars), other : CharTexts(MaxChars)]
    /\ out = None

\* _normalize_symptoms applied to a text, and to its own result
ApplyNormalize ==
    /\ fn = "none"
    /\ fn' = "_normalize_symptoms"
    /\ out' = [once |-> _normalize_symptoms(arg.text),
               twice |-> _normalize_symptoms(_normalize_symptoms(arg.text)),
               seed_once |-> SeedNormalize(arg.text),
               seed_twice |-> SeedNormalize(SeedNormalize(arg.text))]
    /\ UNCHANGED << service, arg, conc >>

\* the keys the handler and the seeding script make of the two texts
ApplyKey ==
    /\ fn = "none"
    /\ fn' = "_redis_seed_key"
    /\ out' = [handler_text |-> _redis_seed_key(arg.prefix, arg.text),
               handler_other |-> _redis_seed_key(arg.prefix, arg.other),
               seed_text |-> _seed_key(arg.prefix, arg.text),
               seed_other |-> _seed_key(arg.prefix, arg.other)]
    /\ UNCHANGED << service, arg, conc >>

NextKey == ApplyNormalize \/ ApplyKey

SpecKey == InitKey /\ [][NextKey]_vars

---------------------------------------------------------------------------
C14_Low(c) == IF c = "A" THEN "a" ELSE c

\* the words of a text from position i on, lower-cased, with a mark between words;
\* started: a word was met before position i
RECURSIVE C14_WordsFrom(_, _, _)
C14_WordsFrom(text, i, started) ==
    IF i > Len(text) THEN << >>
    ELSE IF text[i] = " " THEN C14_WordsFrom(text, i + 1, started)
    ELSE (IF started /\ text[i - 1] = " " THEN << "|" >> ELSE << >>)
         \o << C14_Low(text[i]) >> \o C14_WordsFrom(text, i + 1, TRUE)

\* two texts differ only in case, in leading or trailing whitespace, or in the
\* length of their runs of internal whitespace
C14_SameNormalForm(s, t) == C14_WordsFrom(s, 1, FALSE) = C14_WordsFrom(t, 1, FALSE)

\* C14: normalizing a normalized text changes nothing, and two texts with the same
\* normalized form get the same key under one prefix, from the request handler and
\* from the seeding script alike.
C14_NormalizeIdempotentKeyDeterministic ==
    /\ fn = "_normalize_symptoms" =>
          /\ out.twice = out.once
          /\ out.seed_twice = out.seed_once
          /\ C14_SameNormalForm(out.once, arg.text)
    /\ (fn = "_redis_seed_key" /\ C14_SameNormalForm(arg.text, arg.other)) =>
          /\ out.handler_text = out.handler_other
          /\ out.seed_text = out.seed_other
          /\ out.handler_text = out.seed_other
          /\ out.handler_text.prefix = arg.prefix

\* two texts that differ in case and in whitespace got one key
C14_Witness ==
    /\ fn = "_redis_seed_key"
    /\ arg.text = << " ", "A", " ", "a" >>
    /\ arg.other = << "a", " ", " ", "A" >>
    /\ out.handler_text = out.seed_other

---------------------------------------------------------------------------
\* C15: in every state of the service a GET / is answered 200 with status "running"
\* and an endpoints object that holds the key analyze, and answering it makes no
\* outbound call and changes nothing of the requests being handled.
C15_HomeIsRunning ==
    /\ [](~IsNone(home) =>
            /\ home[1].status = 200
            /\ home[1].body.t = "dict"
            /\ Get(home[1].body, "status") = Str(<< "running" >>)
            /\ Get(home[1].body, "endpoints").t = "dict"
            /\ "analyze" \in DOMAIN Get(home[1].body, "endpoints").f)
    /\ [][home' # home =>
            /\ nCalls' = nCalls
            /\ targets' = targets
            /\ last' = last
            /\ pc' = pc
            /\ resp' = resp]_vars

\* GET / was answered while the provider was failing a request under way
C15_Witness ==
    /\ ~IsNone(home)
    /\ pc = "gemini"
    /\ last.status = 503
    /\ nCalls > 1

---------------------------------------------------------------------------
C16_Transient == {429, 500, 502, 503, 504}

\* C16: while every answer had one transient status and none signalled model
\* loading, _post_hf_with_resilience goes on to a further call only after at most
\* max_retries calls (so it makes at most max_retries + 1 calls), and
\* _post_gemini_with_retries retries a target at most twice.
C16_RetriesBounded ==
    /\ (pc = "hf" /\ nCalls > 0 /\ uniform \in C16_Transient /\ hf.loading = 0) =>
          /\ hf.max_retries \in 0..6
          /\ nCalls <= hf.max_retries
    /\ pc = "gemini" => gem.k \in 0..2

---------------------------------------------------------------------------
\* the hint of the last answer, in ms, when it is a valid non-negative number
C18_HintMs == IF last.retry_after = Some(<< "9" >>) THEN Some(9000) ELSE None

\* C18: after a 429 with a valid non-negative retry-after hint the loop sleeps for
\* the hint, but never for longer than the configured maximum (the maximum backoff,
\* or the wait budget when that is larger).
C18_HintIsClamped ==
    (pc = "hf" /\ last.status = 429 /\ ~IsNone(C18_HintMs)) =>
        LET most == IF hf.max_backoff_ms >= hf.wait_for_model_max_ms
                    THEN hf.max_backoff_ms ELSE hf.wait_for_model_max_ms
        IN  /\ hf.delay_ms <= most
            /\ C18_HintMs[1] <= most => hf.delay_ms = C18_HintMs[1]

---------------------------------------------------------------------------
\* C19: while every answer signalled model loading and the wait budget is positive,
\* the time slept between the polls is at most the budget; and when the loop has
\* returned after answers that were all 503, the response is made of the last 503.
C19_PollingWithinBudget ==
    /\ (/\ pc = "hf"
        /\ nCalls > 0
        /\ hf.loading = nCalls
        /\ hf.wait_for_model_max_ms > 0) =>
          hf.elapsed_ms <= hf.wait_for_model_max_ms
    /\ (pc = "done" /\ nCalls > 0 /\ uniform = 503) =>
          /\ last.status = 503
          /\ Status = 503

---------------------------------------------------------------------------
(* backoff of _post_hf_with_resilience as a function of the configured      *)
(* HF_MIN_BACKOFF_S / HF_MAX_BACKOFF_S, the attempt number and the jitter   *)

MaxAttempt == 4

BackoffMinRaws ==
    { None, Some(<< "0.05" >>), Some(<< "0.2" >>), Some(<< "0.7" >>), Some(<< "1" >>),
      Some(<< "2" >>), Some(<< "20" >>) }

BackoffMaxRaws ==
    { None, Some(<< "0.2" >>), Some(<< "1" >>), Some(<< "2" >>), Some(<< "100" >>) }

\* 100 * (0.75 + 0.5 * (time.time() % 1)) lies in [75, 125)
BackoffJitters == { 75, 87, 100, 124 }

InitBackoff ==
    /\ AtRest
    /\ Started(None, None, None)
    /\ fn = "none"
    /\ arg \in [min : BackoffMinRaws, max : BackoffMaxRaws,
                attempt : 1..MaxAttempt, jitter : BackoffJitters]
    /\ out = None

\* 145-146 and 149-152
ApplyBackoff ==
    /\ fn = "none"
    /\ fn' = "backoff"
    /\ LET h == HfLocals(None, arg.min, arg.max, None)
       IN  out' = [min_backoff_ms |-> h.min_backoff_ms,
                   max_backoff_ms |-> h.max_backoff_ms,
                   delay_ms |-> backoff(h, arg.attempt, arg.jitter)]
    /\ UNCHANGED << service, arg, conc >>

NextBackoff == ApplyBackoff

SpecBackoff == InitBackoff /\ [][NextBackoff]_vars

---------------------------------------------------------------------------
\* C17: every delay backoff computes lies between the configured minimum and
\* maximum backoff (after their clamping), whatever the attempt and the jitter.
C17_DelayWithinBounds ==
    fn = "backoff" =>
        /\ out.delay_ms >= out.min_backoff_ms
        /\ out.delay_ms <= out.max_backoff_ms

---------------------------------------------------------------------------
(* POST /analyze handled by concurrent threads of one process: requests     *)
(* with valid symptoms that miss the cache and find no HF credentials.      *)
(* The threads share os.environ; each one reloads .env into it with         *)
(* override when it starts (465) and _gemini_generate_url reads the         *)
(* credential from it again on every attempt (313).                         *)

Workers == { 1, 2 }

\* the GEMINI_API_KEY line of .env: absent, empty, or one of two keys
DotenvLines ==
    { None, Some(<< >>), Some(<< "gemini_key" >>), Some(<< "gemini_key_2" >>) }

\* GEMINI_API_KEY in the environment the process was started with
ShellValues == { None, Some(<< "gemini_key" >>) }

ConcStatuses == { 200, 503 }

\* load_dotenv for one variable: line is its line in the file, env its value in
\* os.environ; the result is its value in os.environ afterwards
load_dotenv(line, override, env) ==
    IF IsNone(line) THEN env
    ELSE IF override \/ IsNone(env) THEN line
    ELSE env

\* gemini_key: what the thread read at 598; sent: the key of every outbound call
IdleWorker == [pc |-> "idle", gemini_key |-> None, sent |-> << >>, k |-> 0]

\* 24: the import loads .env without override
InitConc ==
    /\ Started(None, None, None)
    /\ fn = "none"
    /\ arg = << >>
    /\ out = None
    /\ \E line \in DotenvLines, shell \in ShellValues :
          /\ dotenv = line
          /\ environ = load_dotenv(line, FALSE, shell)
    /\ workers = [w \in Workers |-> IdleWorker]

\* the .env file is edited while the service runs (463-464)
EditDotenv(line) ==
    /\ line # dotenv
    /\ dotenv' = line
    /\ UNCHANGED << service, aside, environ, workers >>

\* 465: a thread starts on a request
BeginAnalyze(w) ==
    /\ workers[w].pc = "idle"
    /\ environ' = load_dotenv(dotenv, TRUE, environ)
    /\ workers' = [workers EXCEPT ![w].pc = "loaded"]
    /\ UNCHANGED << service, aside, dotenv >>

\* 598-614: the credential is read and checked
CheckGeminiKey(w) ==
    /\ workers[w].pc = "loaded"
    /\ LET gemini_key == _env_str(environ, None)
       IN  workers' = [workers EXCEPT
                          ![w].gemini_key = gemini_key,
                          ![w].pc = IF Truthy(gemini_key) THEN "gemini" ELSE "done"]
    /\ UNCHANGED << service, aside, environ, dotenv >>

\* 309-345: one attempt on the first target; the URL is built from os.environ
GeminiCall(w, status) ==
    /\ workers[w].pc = "gemini"
    /\ LET api_key == OrElse(_env_str(environ, Some(<< >>)), << >>)
           again == status \in GeminiRetryStatuses /\ workers[w].k < 2
       IN  workers' = [workers EXCEPT
                          ![w].sent = Append(@, api_key),
                          ![w].k = IF again THEN @ + 1 ELSE @,
                          ![w].pc = IF again THEN "gemini" ELSE "done"]
    /\ UNCHANGED << service, aside, environ, dotenv >>

NextConc ==
    \/ \E line \in DotenvLines : EditDotenv(line)
    \/ \E w \in Workers : BeginAnalyze(w)
    \/ \E w \in Workers : CheckGeminiKey(w)
    \/ \E w \in Workers, status \in ConcStatuses : GeminiCall(w, status)

SpecConc == InitConc /\ [][NextConc]_vars

---------------------------------------------------------------------------
\* C20: the credential a request sends on every outbound attempt is the one it
\* read and checked as present before its first call, whatever the requests
\* handled at the same time do.
C20_CredentialIsStable ==
    \A w \in DOMAIN workers :
        \A i \in 1..Len(workers[w].sent) :
            workers[w].sent[i] = workers[w].gemini_key[1]

---------------------------------------------------------------------------
\* the first top-level span of a text: from its first opening brace to the first
\* closing brace after it
C21_FirstSpan(text) ==
    LET start == C13_First(text, "{")
        close == CHOOSE j \in start..Len(text) :
                    /\ text[j] = "}"
                    /\ \A k \in start..(j - 1) : text[k] # "}"
    IN  SubSeq(text, start, close)

C21_HasSpan(text) ==
    \E i \in 1..Len(text) : \E j \in i..Len(text) : text[i] = "{" /\ text[j] = "}"

\* the object a span holds
C21_ObjectOf(span) ==
    Dict([conditions |-> ListV(<< "A" >>),
          recommendations |-> Str(<< "R" >>),
          disclaimer |-> Str(<< "D" >>)])

\* C21: for a text without code fences that holds an object in its first top-level
\* brace span, with prose before it and any text after it, both parsers return that
\* object.
C21_FirstObjectWins ==
    (/\ fn \in {"_parse_llm_json_output", "analyze_symptoms"}
     /\ ~C13_Has(arg, Fence)
     /\ C21_HasSpan(arg)
     /\ C21_FirstSpan(arg) = << "{", "K3", "}" >>) =>
        out = Some(C21_ObjectOf(C21_FirstSpan(arg)))

---------------------------------------------------------------------------
---------------------------------------------------------------------------
\* the calls _post_hf_with_resilience can have made when it goes on to a further
\* one: a sleep follows a 429 or a 5xx on the first max_retries + 1 attempts only,
\* and every model-loading poll sleeps 400 ms of the budget at least
C23_MostCalls(h) == h.max_retries + 1 + ((h.wait_for_model_max_ms + 399) \div 400)

\* C23: _post_hf_with_resilience makes a number of outbound calls bounded by a
\* function of HF_MAX_RETRIES and HF_WAIT_FOR_MODEL_MAX_MS, and when every call was
\* answered it ends by returning the last answer or by raising PermissionError.
C23_LoopEndsWithinBound ==
    /\ pc = "hf" => nCalls <= C23_MostCalls(hf)
    /\ (pc = "done" /\ OnHfPath /\ nCalls > 0 /\ last.status # 0) =>
          \/ resp = Some(HfRespond(last, RETURN_FALLBACK_ON_LLM_ERROR))
          \/ /\ last.status \in {401, 403}
             /\ Status = 500
             /\ CodeIs("LLM_AUTH_ERROR")

=============================================================================
